---- MODULE Spec2Model ----
(***************************************************************************)
(* Sugar Glucose Tracker.                                                  *)
(*                                                                         *)
(* Two independent processes are modelled:                                 *)
(*   - the Home component of src/app/page.tsx: the canonical collection    *)
(*     `entries`, its busy flags and messages, and the round trips to the  *)
(*     remote store that load and mutate it (specification Spec);          *)
(*   - the service worker of src/unnamed/part_000: install, activate and   *)
(*     the fetch listener over the Cache Storage (specification SpecSW).   *)
(*                                                                         *)
(* Times are minutes counted from 2024-05-15T00:00.  A date string is a    *)
(* record [clock, fmt]: clock is the wall clock the string spells in its   *)
(* first 16 characters (YYYY-MM-DDTHH:MM) and fmt is what follows them:    *)
(*   "local"  nothing          (the bundled sample, "2024-05-17T07:45")    *)
(*   "tz"     ":00+00:00"      (a timestamptz column as the store sends it)*)
(*   "iso"    ":00.000Z"       (Date.prototype.toISOString)                *)
(* Values are hundredths of mmol/L.  Ids are numbers: 1..4 the sample ids, *)
(* 11.. rows that exist in the store, 101.. the ids crypto.randomUUID      *)
(* hands out.  Null is 0 for ids and "null" for messages.                  *)
(***************************************************************************)
EXTENDS Integers, Sequences, FiniteSets, TLC

VARIABLES
    \* ---- environment of the page
    supabase,           \* TRUE iff the store client is configured
    tzOffset,           \* local time = UTC + tzOffset (minutes)
    remote,             \* rows of table glucose_entries in the store
    \* ---- React state of Home
    entries,
    isSubmitting,
    isLoadingEntries,
    syncError,
    statusMessage,
    editingId,
    deletingId,
    \* ---- asynchronous continuations of Home
    submitCount,        \* calls of handleSubmit so far
    deleteCount,        \* calls of handleDelete so far
    fetchReq,           \* the load effect and its select round trip
    submitReq,          \* the handleSubmit call in flight, with its closure
    deleteReqs,         \* the handleDelete calls in flight, with their closures
    \* ---- the history view of Home
    currentPage,
    searchTerm,         \* as filteredEntries uses it: trimmed, in lower case
    filterPeriod,
    filterCategory,
    filterStartDate,    \* {} for the empty string, {day} for a date
    filterEndDate,
    \* ---- service worker
    swState,            \* lifecycle of the worker
    assetFetch,         \* cache.addAll: outcome of each APP_SHELL request
    skipWaitingCalled,
    caches,             \* Cache Storage: bucket name -> (request key -> response)
    keysSnapshot,       \* activate: the array caches.keys() resolved to
    pendingDeletes,     \* activate: caches.delete promises not yet settled
    clientsClaimed,
    events              \* fetch events dispatched to the worker

coreVars == <<supabase, tzOffset, remote, entries, isSubmitting, isLoadingEntries,
              syncError, statusMessage, editingId, deletingId, submitCount, deleteCount,
              fetchReq, submitReq, deleteReqs>>
filterVars == <<searchTerm, filterPeriod, filterCategory, filterStartDate, filterEndDate>>
viewVars == <<currentPage, filterVars>>
pageVars == <<supabase, tzOffset, remote, entries, isSubmitting, isLoadingEntries,
              syncError, statusMessage, editingId, deletingId, submitCount, deleteCount,
              fetchReq, submitReq, deleteReqs, viewVars>>
swVars == <<swState, assetFetch, skipWaitingCalled, caches, keysSnapshot, pendingDeletes,
            clientsClaimed, events>>
vars == <<pageVars, swVars>>

-----------------------------------------------------------------------------
\* Bounds of the model

\* calls of handleSubmit and handleDelete in one behaviour
MaxOps == 2

-----------------------------------------------------------------------------
\* Dates

Null == 0
NoMsg == "null"

FmtRank(fmt) == CASE fmt = "local" -> 0
                  [] fmt = "tz" -> 1
                  [] fmt = "iso" -> 2

\* a.date < b.date on JavaScript strings: the 16 characters of the clock decide;
\* when they agree "local" is a proper prefix of the other two, and '+' < '.'
DateLess(a, b) ==
    \/ a.clock < b.clock
    \/ a.clock = b.clock /\ FmtRank(a.fmt) < FmtRank(b.fmt)

\* new Date(s).getTime(): a date-time string without offset is local time
Instant(d) == IF d.fmt = "local" THEN d.clock - tzOffset ELSE d.clock

\* new Date(`${form.date}T${form.time}`).toISOString()
composedDate(wall) == [clock |-> wall - tzOffset, fmt |-> "iso"]

-----------------------------------------------------------------------------
\* Entries

initialEntries ==
    << [id |-> 1, value |-> 570, date |-> [clock |-> 3345, fmt |-> "local"], period |-> "Fasting"],
       [id |-> 2, value |-> 770, date |-> [clock |-> 2175, fmt |-> "local"], period |-> "Post-Meal"],
       [id |-> 3, value |-> 660, date |-> [clock |-> 1085, fmt |-> "local"], period |-> "Pre-Meal"],
       [id |-> 4, value |-> 530, date |-> [clock |-> 440, fmt |-> "local"], period |-> "Fasting"] >>

allowedPeriods == {"Fasting", "Pre-Meal", "Post-Meal"}

\* a row of the store as the client receives it
SupabaseRow(r) ==
    [id |-> r.id, value |-> r.value,
     reading_date |-> [clock |-> r.instant, fmt |-> "tz"], period |-> r.period]

\* a mapping that took the period of the row as it came
mapRowToEntryVerbatim(row) ==
    [id |-> row.id, value |-> row.value, date |-> row.reading_date,
     period |-> row.period]

mapRowToEntry(row) ==
    [id |-> row.id, value |-> row.value, date |-> row.reading_date,
     period |-> IF row.period \in allowedPeriods THEN row.period ELSE "Fasting"]

Range(s) == {s[k] : k \in 1..Len(s)}
Ids(s) == {s[k].id : k \in 1..Len(s)}

InsertAt(e, s, p) == SubSeq(s, 1, p - 1) \o <<e>> \o SubSeq(s, p, Len(s))

\* where the comparator (a, b) => (a.date < b.date ? 1 : -1) lets e stand in s
InsertPositions(e, s) ==
    {p \in 1..(Len(s) + 1) :
        /\ \A k \in 1..(p - 1) : ~DateLess(s[k].date, e.date)
        /\ \A k \in p..Len(s) : ~DateLess(e.date, s[k].date)}

RECURSIVE SortedArrangements(_)
SortedArrangements(list) ==
    IF list = <<>> THEN {<<>>}
    ELSE UNION {{InsertAt(Head(list), s, p) : p \in InsertPositions(Head(list), s)} :
                    s \in SortedArrangements(Tail(list))}

\* [...list].sort(comparator).  The comparator never answers 0, so the order of
\* two entries with the same date string is the engine's choice: the operator
\* is the set of arrays the sort may return.
sortEntriesByDateDesc(list) == SortedArrangements(list)

\* prev.map((entry) => (entry.id === e.id ? e : entry))
ReplaceById(prev, e) == [k \in 1..Len(prev) |-> IF prev[k].id = e.id THEN e ELSE prev[k]]

\* prev.filter((item) => item.id !== id)
RECURSIVE FilterOutId(_, _)
FilterOutId(prev, id) ==
    IF prev = <<>> THEN <<>>
    ELSE IF Head(prev).id = id THEN FilterOutId(Tail(prev), id)
         ELSE <<Head(prev)>> \o FilterOutId(Tail(prev), id)

-----------------------------------------------------------------------------
\* Messages

SyncNotConfigured == "Supabase is not configured. Add your credentials to enable syncing."
SyncUnavailable == "Live sync unavailable. Showing the last cached sample."
MsgDeleted == "Reading deleted."
MsgDeleteFailed == "Could not delete from Supabase. Please retry."
MsgUpdated == "Reading updated."
MsgSaved == "Reading saved to Supabase."
MsgUpdateFailed == "Could not update on Supabase. Please retry."
MsgSaveFailed == "Could not save to Supabase. Please retry."
MsgLocalOnly == "Supabase not configured. Entry kept locally for now."
MsgRemoveLocalOnly == "Supabase not configured. Remove locally only."

\* the messages that report a success, and those that report a problem
SuccessMessages == {MsgDeleted, MsgUpdated, MsgSaved}
WarningMessages == {MsgDeleteFailed, MsgUpdateFailed, MsgSaveFailed, MsgLocalOnly,
                    MsgRemoveLocalOnly}

-----------------------------------------------------------------------------
\* The remote store (table glucose_entries, primary key id)

RemoteRows ==
    { [id |-> 11, value |-> 900, instant |-> 3000, period |-> "Post-Meal"],
      [id |-> 12, value |-> 400, instant |-> 3345, period |-> "Snack"] }

RemoteInits == { {}, RemoteRows }

\* .order("reading_date", { ascending: false }): the arrays the store may answer
RECURSIVE OrderedDesc(_)
OrderedDesc(S) ==
    IF S = {} THEN {<<>>}
    ELSE UNION {{<<r>> \o s : s \in OrderedDesc(S \ {r})} :
                    r \in {x \in S : \A y \in S : y.instant <= x.instant}}

\* the row the store keeps for a payload: reading_date is parsed to an instant
StoredRow(payload) ==
    [id |-> payload.id, value |-> payload.value,
     instant |-> Instant(payload.date), period |-> payload.period]

-----------------------------------------------------------------------------
\* What the user can type into the form

TzOffsets == {0, 480}

FormWalls == {3400}
FormValues == {600}
FormPeriods == {"Post-Meal"}

IdleFetch == [phase |-> "init"]
IdleSubmit == [phase |-> "idle"]

\* crypto.randomUUID(): an id no earlier call returned
randomUUID == 101 + submitCount

RemoveAt(s, i) == SubSeq(s, 1, i - 1) \o SubSeq(s, i + 1, Len(s))

-----------------------------------------------------------------------------
\* The history view: filters and pages

PAGE_SIZE == 10
TARGET_RANGE == [lowUpper |-> 440, highLower |-> 780]

Min(a, b) == IF a < b THEN a ELSE b
Max(a, b) == IF a > b THEN a ELSE b

\* the wall clock getFullYear .. getMinutes read off new Date(s): local time
LocalWall(d) == Instant(d) + tzOffset

\* toInputDate: the local calendar day, counted from 2024-05-15; the strings
\* YYYY-MM-DD compare as the day numbers do
toInputDate(d) == LocalWall(d) \div 1440

\* toInputTime: the local minute of the day
toInputTime(d) == LocalWall(d) % 1440

getReadingCategory(value) ==
    IF value < TARGET_RANGE.lowUpper THEN "low"
    ELSE IF value > TARGET_RANGE.highLower THEN "high"
    ELSE "good"

\* fields.some((field) => field.toLowerCase().includes(term)) for the terms of
\* the model: "fasting" and "meal" are found in the period only (no month name,
\* AM/PM suffix or number holds them, and the model's readings carry no note)
TermMatches(term, entry) ==
    CASE term = "" -> TRUE
      [] term = "fasting" -> entry.period = "Fasting"
      [] term = "meal" -> entry.period \in {"Pre-Meal", "Post-Meal"}

\* a filter without its free-text test
KeepsStructuredOnly(entry, term, start, end, period, category) ==
    /\ ~(\E d \in start : toInputDate(entry.date) < d)
    /\ ~(\E d \in end : toInputDate(entry.date) > d)
    /\ ~(period # "All" /\ entry.period # period)
    /\ ~(category # "All" /\ getReadingCategory(entry.value) # category)

\* the callback of entries.filter in filteredEntries
Keeps(entry, term, start, end, period, category) ==
    /\ ~(\E d \in start : toInputDate(entry.date) < d)
    /\ ~(\E d \in end : toInputDate(entry.date) > d)
    /\ ~(period # "All" /\ entry.period # period)
    /\ ~(category # "All" /\ getReadingCategory(entry.value) # category)
    /\ TermMatches(term, entry)

RECURSIVE FilteredEntries(_, _, _, _, _, _)
FilteredEntries(list, term, start, end, period, category) ==
    IF list = <<>> THEN <<>>
    ELSE (IF Keeps(Head(list), term, start, end, period, category)
          THEN <<Head(list)>> ELSE <<>>)
         \o FilteredEntries(Tail(list), term, start, end, period, category)

\* the filteredEntries memo for a collection under the filters as they are
filteredOf(list) ==
    FilteredEntries(list, searchTerm, filterStartDate, filterEndDate, filterPeriod,
                    filterCategory)

filteredEntries == filteredOf(entries)

\* Math.max(1, Math.ceil(n / PAGE_SIZE) || 1)
totalPagesOf(n) == Max(1, (n + PAGE_SIZE - 1) \div PAGE_SIZE)

totalPages == totalPagesOf(Len(filteredEntries))

\* a slice one reading short
paginatedShort(filtered, page) ==
    LET start == (page - 1) * PAGE_SIZE IN
    IF start >= Len(filtered) THEN <<>>
    ELSE SubSeq(filtered, start + 1, Min(Len(filtered), start + PAGE_SIZE - 1))

\* filteredEntries.slice(start, start + PAGE_SIZE), start = (page - 1) * PAGE_SIZE
paginatedOf(filtered, page) ==
    LET start == (page - 1) * PAGE_SIZE IN
    IF start >= Len(filtered) THEN <<>>
    ELSE SubSeq(filtered, start + 1, Min(Len(filtered), start + PAGE_SIZE))

paginatedEntries == paginatedOf(filteredEntries, currentPage)

\* a view that never ran the clamp
ClampPageNever(page, oldCount, newCount) == page

\* the effect on [filteredEntries.length]: setCurrentPage(prev => Math.min(prev, maxPage))
ClampPage(page, oldCount, newCount) ==
    IF newCount # oldCount THEN Min(page, totalPagesOf(newCount)) ELSE page

\* currentPage after a handler has replaced entries and the effect has run
PageAfter(newEntries) ==
    ClampPage(currentPage, Len(filteredEntries), Len(filteredOf(newEntries)))

-----------------------------------------------------------------------------
\* The load effect and fetchEntries

\* an effect that returned without raising the warning
LoadEffectSilent(client, prev) == prev

\* syncError as the synchronous part of the effect leaves it
LoadEffectSyncError(client, prev) == IF ~client THEN SyncNotConfigured ELSE prev

LoadEffect ==
    /\ fetchReq.phase = "init"
    /\ syncError' = LoadEffectSyncError(supabase, syncError)
    /\ IF ~supabase
       THEN /\ isLoadingEntries' = FALSE
            /\ fetchReq' = [phase |-> "none"]
       ELSE /\ isLoadingEntries' = TRUE
            /\ fetchReq' = [phase |-> "sent"]
    /\ UNCHANGED <<supabase, tzOffset, remote, entries, isSubmitting, statusMessage,
                   editingId, deletingId, submitCount, deleteCount, submitReq, deleteReqs,
                   swVars, viewVars>>

\* the store answers the select with its rows, newest first
ServeFetchOk ==
    /\ fetchReq.phase = "sent"
    /\ \E data \in OrderedDesc(remote) :
          fetchReq' = [phase |-> "ok", data |-> [k \in 1..Len(data) |-> SupabaseRow(data[k])]]
    /\ UNCHANGED <<supabase, tzOffset, remote, entries, isSubmitting, isLoadingEntries,
                   syncError, statusMessage, editingId, deletingId, submitCount,
                   deleteCount, submitReq, deleteReqs, swVars, viewVars>>

ServeFetchError ==
    /\ fetchReq.phase = "sent"
    /\ fetchReq' = [phase |-> "error"]
    /\ UNCHANGED <<supabase, tzOffset, remote, entries, isSubmitting, isLoadingEntries,
                   syncError, statusMessage, editingId, deletingId, submitCount,
                   deleteCount, submitReq, deleteReqs, swVars, viewVars>>

\* what setEntries receives when the select succeeded
LoadedEntries(data) == [k \in 1..Len(data) |-> mapRowToEntry(data[k])]

\* a load that emptied the list when the select failed
EntriesAfterFetchCleared(prev, req) ==
    IF req.phase = "ok" THEN LoadedEntries(req.data) ELSE <<>>

\* entries once the select has settled: setEntries is called in the try block only
EntriesAfterFetch(prev, req) ==
    IF req.phase = "ok" THEN LoadedEntries(req.data) ELSE prev

\* the continuation of fetchEntries after its await
FetchComplete ==
    /\ fetchReq.phase \in {"ok", "error"}
    /\ entries' = EntriesAfterFetch(entries, fetchReq)
    /\ syncError' = IF fetchReq.phase = "ok" THEN NoMsg ELSE SyncUnavailable
    /\ isLoadingEntries' = FALSE
    /\ fetchReq' = [phase |-> "done"]
    /\ currentPage' = PageAfter(entries')
    /\ UNCHANGED <<supabase, tzOffset, remote, isSubmitting, statusMessage, editingId,
                   deletingId, submitCount, deleteCount, submitReq, deleteReqs, swVars, filterVars>>

-----------------------------------------------------------------------------
\* handleSubmit

draftEntry(wall, value, period) ==
    [id |-> IF editingId # Null THEN editingId ELSE randomUUID,
     value |-> value, date |-> composedDate(wall), period |-> period]

\* the catch block's nextEntries, before sorting
LocalFallback(prev, draft, editing) ==
    IF editing # Null THEN ReplaceById(prev, draft) ELSE <<draft>> \o prev

\* nextEntries of the insert branch, before sorting
WithSaved(prev, savedEntry) == <<savedEntry>> \o prev

\* the Save button: disabled={isSubmitting}
SubmitEnabled == fetchReq.phase # "init" /\ ~isSubmitting

\* the submit handler up to its first await; without a client it throws before
\* any await and the catch and finally blocks run in the same task
handleSubmit(wall, value, period) ==
    /\ SubmitEnabled
    /\ submitCount + deleteCount < MaxOps
    /\ LET draft == draftEntry(wall, value, period) IN
       IF ~supabase
       THEN /\ statusMessage' = MsgLocalOnly
            /\ entries' \in sortEntriesByDateDesc(LocalFallback(entries, draft, editingId))
            /\ editingId' = Null
            /\ isSubmitting' = FALSE
            /\ submitReq' = submitReq
       ELSE /\ statusMessage' = NoMsg
            /\ isSubmitting' = TRUE
            /\ submitReq' = [phase |-> "sent", draft |-> draft, editingId |-> editingId]
            /\ UNCHANGED <<entries, editingId>>
    /\ submitCount' = submitCount + 1
    /\ currentPage' = PageAfter(entries')
    /\ UNCHANGED <<supabase, tzOffset, remote, isLoadingEntries, syncError, deletingId,
                   deleteCount, fetchReq, deleteReqs, swVars, filterVars>>

\* the store applies the insert or the update and answers with the row
ServeSubmitOk ==
    /\ submitReq.phase = "sent"
    /\ LET d == submitReq.draft IN
       /\ IF submitReq.editingId # Null
          THEN \E r \in remote : r.id = d.id
          ELSE \A r \in remote : r.id # d.id
       /\ remote' = {r \in remote : r.id # d.id} \cup {StoredRow(d)}
       /\ submitReq' = [phase |-> "ok", draft |-> d, editingId |-> submitReq.editingId,
                        data |-> SupabaseRow(StoredRow(d))]
    /\ UNCHANGED <<supabase, tzOffset, entries, isSubmitting, isLoadingEntries, syncError,
                   statusMessage, editingId, deletingId, submitCount, deleteCount,
                   fetchReq, deleteReqs, swVars, viewVars>>

\* the call fails: network error, or .single() finds no row
ServeSubmitError ==
    /\ submitReq.phase = "sent"
    /\ submitReq' = [submitReq EXCEPT !.phase = "error"]
    /\ UNCHANGED <<supabase, tzOffset, remote, entries, isSubmitting, isLoadingEntries,
                   syncError, statusMessage, editingId, deletingId, submitCount,
                   deleteCount, fetchReq, deleteReqs, swVars, viewVars>>

\* a handler that cleared the flag at the end of its try block only
SubmittingAfterTryOnly(phase) == phase = "error"

\* finally: setIsSubmitting(false), whatever the outcome
SubmittingAfter(phase) == FALSE

\* the continuation of handleSubmit after its await
SubmitComplete ==
    /\ submitReq.phase \in {"ok", "error"}
    /\ LET d == submitReq.draft
           editing == submitReq.editingId
           saved == IF submitReq.phase = "ok" THEN mapRowToEntry(submitReq.data) ELSE d
       IN
       IF submitReq.phase = "ok"
       THEN /\ IF editing # Null
               THEN /\ entries' \in sortEntriesByDateDesc(ReplaceById(entries, saved))
                    /\ editingId' = Null
                    /\ statusMessage' = MsgUpdated
               ELSE /\ entries' \in sortEntriesByDateDesc(WithSaved(entries, saved))
                    /\ editingId' = editingId
                    /\ statusMessage' = MsgSaved
            /\ syncError' = NoMsg
       ELSE /\ statusMessage' = IF editing # Null THEN MsgUpdateFailed ELSE MsgSaveFailed
            /\ entries' \in sortEntriesByDateDesc(LocalFallback(entries, d, editing))
            /\ UNCHANGED <<editingId, syncError>>
    /\ isSubmitting' = SubmittingAfter(submitReq.phase)
    /\ submitReq' = IdleSubmit
    /\ currentPage' = PageAfter(entries')
    /\ UNCHANGED <<supabase, tzOffset, remote, isLoadingEntries, deletingId, submitCount,
                   deleteCount, fetchReq, deleteReqs, swVars, filterVars>>

-----------------------------------------------------------------------------
\* handleDelete

\* the Delete button of a rendered row: the rows of the current page are
\* rendered once loading ended
DeleteEnabled(id) ==
    /\ fetchReq.phase # "init"
    /\ ~isLoadingEntries
    /\ id \in Ids(paginatedEntries)
    /\ ~(deletingId = id \/ isSubmitting)

\* the handler up to its await; without a client nothing is awaited and the
\* try and finally blocks run in the same task
handleDelete(id) ==
    /\ DeleteEnabled(id)
    /\ submitCount + deleteCount < MaxOps
    /\ deleteCount' = deleteCount + 1
    /\ IF ~supabase
       THEN /\ entries' = FilterOutId(entries, id)
            /\ editingId' = IF editingId = id THEN Null ELSE editingId
            /\ statusMessage' = MsgDeleted
            /\ deletingId' = Null
            /\ deleteReqs' = deleteReqs
       ELSE /\ deletingId' = id
            /\ statusMessage' = NoMsg
            /\ deleteReqs' = Append(deleteReqs, [id |-> id, editingId |-> editingId])
            /\ UNCHANGED <<entries, editingId>>
    /\ currentPage' = PageAfter(entries')
    /\ UNCHANGED <<supabase, tzOffset, remote, isSubmitting, isLoadingEntries, syncError,
                   submitCount, fetchReq, submitReq, swVars, filterVars>>

\* a handler that removed the entry whether or not the store call succeeded
AfterDeleteOptimistic(prev, id, ok) == FilterOutId(prev, id)

\* what the handler leaves in entries once the delete call has settled
AfterDelete(prev, id, ok) == IF ok THEN FilterOutId(prev, id) ELSE prev

\* The store answers the i-th delete call and the continuation of handleDelete
\* runs.  The store's delete takes effect at some moment between the call and
\* its answer; the model places it at the answer: deletes are started only after
\* the load has ended, so nothing reads the table in between but an update,
\* which may fail at any time anyway.
DeleteComplete(i, ok) ==
    /\ i \in 1..Len(deleteReqs)
    /\ LET req == deleteReqs[i] IN
       /\ remote' = IF ok THEN {r \in remote : r.id # req.id} ELSE remote
       /\ entries' = AfterDelete(entries, req.id, ok)
       /\ IF ok
          THEN /\ editingId' = IF req.editingId = req.id THEN Null ELSE editingId
               /\ statusMessage' = MsgDeleted
          ELSE /\ editingId' = editingId
               /\ statusMessage' = MsgDeleteFailed
    /\ deletingId' = Null
    /\ deleteReqs' = RemoveAt(deleteReqs, i)
    /\ currentPage' = PageAfter(entries')
    /\ UNCHANGED <<supabase, tzOffset, isSubmitting, isLoadingEntries, syncError,
                   submitCount, deleteCount, fetchReq, submitReq, swVars, filterVars>>

-----------------------------------------------------------------------------
\* Editing and the status timer

startEditing(id) ==
    /\ fetchReq.phase # "init"
    /\ ~isLoadingEntries
    /\ id \in Ids(paginatedEntries)
    /\ editingId' = id
    /\ UNCHANGED <<supabase, tzOffset, remote, entries, isSubmitting, isLoadingEntries,
                   syncError, statusMessage, deletingId, submitCount, deleteCount,
                   fetchReq, submitReq, deleteReqs, swVars, viewVars>>

cancelEditing ==
    /\ editingId # Null
    /\ editingId' = Null
    /\ UNCHANGED <<supabase, tzOffset, remote, entries, isSubmitting, isLoadingEntries,
                   syncError, statusMessage, deletingId, submitCount, deleteCount,
                   fetchReq, submitReq, deleteReqs, swVars, viewVars>>

\* a setTimeout(() => setStatusMessage(null), 4000) fires.  Every handler that
\* sets a message schedules such a timer after it, so one is pending whenever a
\* message is shown; a timer firing with no message shown changes nothing.
StatusTimer ==
    /\ statusMessage # NoMsg
    /\ statusMessage' = NoMsg
    /\ UNCHANGED <<supabase, tzOffset, remote, entries, isSubmitting, isLoadingEntries,
                   syncError, editingId, deletingId, submitCount, deleteCount, fetchReq,
                   submitReq, deleteReqs, swVars, viewVars>>

-----------------------------------------------------------------------------
\* The controls of the history view.  Each filter control also calls
\* setCurrentPage(1); the clamp effect that follows leaves 1 as it is.

setSearchTerm(term) ==
    /\ searchTerm' = term
    /\ currentPage' = 1
    /\ UNCHANGED <<filterPeriod, filterCategory, filterStartDate, filterEndDate,
                   coreVars, swVars>>

setFilterStartDate(date) ==
    /\ filterStartDate' = date
    /\ currentPage' = 1
    /\ UNCHANGED <<searchTerm, filterPeriod, filterCategory, filterEndDate,
                   coreVars, swVars>>

setFilterEndDate(date) ==
    /\ filterEndDate' = date
    /\ currentPage' = 1
    /\ UNCHANGED <<searchTerm, filterPeriod, filterCategory, filterStartDate,
                   coreVars, swVars>>

setFilterPeriod(period) ==
    /\ filterPeriod' = period
    /\ currentPage' = 1
    /\ UNCHANGED <<searchTerm, filterCategory, filterStartDate, filterEndDate,
                   coreVars, swVars>>

setFilterCategory(category) ==
    /\ filterCategory' = category
    /\ currentPage' = 1
    /\ UNCHANGED <<searchTerm, filterPeriod, filterStartDate, filterEndDate,
                   coreVars, swVars>>

resetHistoryFilters ==
    /\ ~(searchTerm = "" /\ filterPeriod = "All" /\ filterCategory = "All"
         /\ filterStartDate = {} /\ filterEndDate = {})
    /\ searchTerm' = ""
    /\ filterPeriod' = "All"
    /\ filterCategory' = "All"
    /\ filterStartDate' = {}
    /\ filterEndDate' = {}
    /\ currentPage' = 1
    /\ UNCHANGED <<coreVars, swVars>>

\* the pager is rendered when loading has ended and a reading is shown
PagerShown == fetchReq.phase # "init" /\ ~isLoadingEntries /\ Len(filteredEntries) > 0

\* the Prev button: setCurrentPage((prev) => Math.max(1, prev - 1))
PrevPage ==
    /\ PagerShown
    /\ currentPage # 1
    /\ currentPage' = Max(1, currentPage - 1)
    /\ UNCHANGED <<filterVars, coreVars, swVars>>

\* the Next button: setCurrentPage((prev) => Math.min(totalPages, prev + 1))
NextPage ==
    /\ PagerShown
    /\ currentPage # totalPages
    /\ currentPage' = Min(totalPages, currentPage + 1)
    /\ UNCHANGED <<filterVars, coreVars, swVars>>

-----------------------------------------------------------------------------
\* Summary statistics (the averages memo)

RECURSIVE Sum(_)
\* values.reduce((acc, value) => acc + value, 0)
Sum(values) == IF values = <<>> THEN 0 ELSE Head(values) + Sum(Tail(values))

\* a rounding that went up to the next tenth
RoundUpToTenth(num, den) == 10 * ((num + 10 * den - 1) \div (10 * den))

\* Math.round(x * 10) / 10 for x = num / den hundredths, den > 0, in hundredths:
\* Math.round takes a half towards plus infinity.  The arithmetic is exact here;
\* the code's is in doubles.
RoundToTenth(num, den) == 10 * ((2 * num + 10 * den) \div (20 * den))

\* a slice that took the whole list
RecentEntriesAll(list) == list

\* entries.slice(0, Math.min(3, entries.length))
RecentEntries(list) == SubSeq(list, 1, Min(3, Len(list)))

\* the memo without its early return: 0 / 0 is NaN and NaN stays NaN through
\* Math.round and the subtraction; NaN is written -1 here
averagesUnguarded(list) ==
    IF Len(list) = 0 THEN [average |-> -1, recent |-> 0, trend |-> -1]
    ELSE LET values == [k \in 1..Len(list) |-> list[k].value]
             recentEntries == RecentEntries(list)
             recentValues == [k \in 1..Len(recentEntries) |-> recentEntries[k].value]
             n == Len(values)
             m == IF Len(recentEntries) = 0 THEN 1 ELSE Len(recentEntries)
         IN [average |-> RoundToTenth(Sum(values), n),
             recent |-> RoundToTenth(Sum(recentValues), m),
             trend |-> RoundToTenth(Sum(recentValues) * n - Sum(values) * m, m * n)]

\* useMemo(() => ..., [entries]): avg = Sum(values) / n, recentAvg =
\* Sum(recentValues) / m, and recentAvg - avg is the fraction of the trend
averages(list) ==
    IF Len(list) = 0 THEN [average |-> 0, recent |-> 0, trend |-> 0]
    ELSE LET values == [k \in 1..Len(list) |-> list[k].value]
             recentEntries == RecentEntries(list)
             recentValues == [k \in 1..Len(recentEntries) |-> recentEntries[k].value]
             n == Len(values)
             m == IF Len(recentEntries) = 0 THEN 1 ELSE Len(recentEntries)
         IN [average |-> RoundToTenth(Sum(values), n),
             recent |-> RoundToTenth(Sum(recentValues), m),
             trend |-> RoundToTenth(Sum(recentValues) * n - Sum(values) * m, m * n)]

-----------------------------------------------------------------------------
\* The chart (the chartData memo)

\* the array of a bucket an entry's value is pushed to
SeriesOf(entry) ==
    IF entry.period = "Fasting" THEN "fasting"
    ELSE IF entry.period = "Pre-Meal" THEN "preMeal"
    ELSE "postMeal"

\* the values pushed to one array of the bucket of dateKey
RECURSIVE BucketValues(_, _, _)
BucketValues(list, dateKey, series) ==
    IF list = <<>> THEN <<>>
    ELSE (IF toInputDate(Head(list).date) = dateKey /\ SeriesOf(Head(list)) = series
          THEN <<Head(list).value>> ELSE <<>>)
         \o BucketValues(Tail(list), dateKey, series)

\* average(values) of chartData: undefined is {}, a number n is {n}
BucketAverage(values) ==
    IF Len(values) = 0 THEN {} ELSE {RoundToTenth(Sum(values), Len(values))}

\* the keys of the buckets, sorted by local midnight ascending
RECURSIVE Ascending(_)
Ascending(S) ==
    IF S = {} THEN <<>>
    ELSE LET least == CHOOSE x \in S : \A y \in S : x <= y
         IN <<least>> \o Ascending(S \ {least})

\* a series that kept the first buckets
FirstEight(seq) == SubSeq(seq, 1, Min(8, Len(seq)))

\* .slice(-8)
LastEight(seq) == SubSeq(seq, Max(1, Len(seq) - 7), Len(seq))

chartData(list) ==
    IF Len(list) = 0 THEN <<>>
    ELSE LET keys == LastEight(Ascending({toInputDate(list[k].date) : k \in 1..Len(list)}))
         IN [i \in 1..Len(keys) |->
                [dateKey |-> keys[i],
                 fasting |-> BucketAverage(BucketValues(list, keys[i], "fasting")),
                 preMeal |-> BucketAverage(BucketValues(list, keys[i], "preMeal")),
                 postMeal |-> BucketAverage(BucketValues(list, keys[i], "postMeal"))]]

\* a test that looked at the readings instead of the points
HasSeriesInReadings(list, series) ==
    \E k \in 1..Len(list) : SeriesOf(list[k]) = series

\* chartData.some((point) => typeof point[series] === "number")
HasSeries(list, series) ==
    LET points == chartData(list) IN \E i \in 1..Len(points) : points[i][series] # {}

shouldShowLegend(list) ==
    HasSeries(list, "fasting") \/ HasSeries(list, "preMeal") \/ HasSeries(list, "postMeal")

-----------------------------------------------------------------------------
\* CSV export (handleExportCsv)

CsvHeader == <<"Reading Date", "Reading Time", "Period", "Value (mmol/L)", "Note">>

\* one row: date.toISOString().split("T")[0] is the UTC calendar day, and
\* toMeridiemTime(date) spells the local minute of the day (getHours, getMinutes)
CsvRow(entry) ==
    [date |-> Instant(entry.date) \div 1440,
     time |-> LocalWall(entry.date) % 1440,
     period |-> entry.period,
     value |-> entry.value,
     id |-> entry.id]

\* the row arrays the export may write for a filtered set; the id is kept in
\* the model's row to tell the readings apart, the file has no such column
CsvRows(filtered) ==
    {[k \in 1..Len(sorted) |-> CsvRow(sorted[k])] : sorted \in sortEntriesByDateDesc(filtered)}

-----------------------------------------------------------------------------
\* The service worker: constants, responses, Cache Storage

MaxEvents == 2

CACHE_NAME == "sgt-cache-v1"
APP_SHELL == {"/", "/manifest.webmanifest", "/favicon.ico",
              "/icons/icon-192.png", "/icons/icon-512.png"}

\* the value a promise resolves to when there is no Response
Undefined == [status |-> 0, type |-> "undefined", version |-> 0]

Response(status, type, version) == [status |-> status, type |-> type, version |-> version]

\* what the network may answer a request with; an opaque response shows status 0
NetResponses ==
    { Response(200, "basic", 1), Response(200, "basic", 2),
      Response(404, "basic", 1), Response(0, "opaque", 1) }

Urls == {"/", "/app.js", "chrome-extension://abc/inject.js"}
Methods == {"GET", "POST"}

IsExtensionUrl(url) == url = "chrome-extension://abc/inject.js"

\* buckets an earlier version of the worker may have left behind
OldBucket == [u \in {"/"} |-> Response(200, "basic", 0)]
InitialCaches ==
    { <<>>,
      [b \in {"sgt-cache-v0"} |-> OldBucket],
      [b \in {"sgt-cache-v0", "sgt-cache-beta"} |-> OldBucket] }

EmptyBucket == <<>>

\* caches.open(name): the bucket is created when it does not exist
Opened(c, name) ==
    IF name \in DOMAIN c THEN c
    ELSE [b \in DOMAIN c \cup {name} |-> IF b = name THEN EmptyBucket ELSE c[b]]

\* a put that kept the entry a key already had
PutIfAbsent(c, name, key, response) ==
    IF key \in DOMAIN c[name] THEN c
    ELSE [c EXCEPT ![name] = [k \in DOMAIN c[name] \cup {key} |->
                                 IF k = key THEN response ELSE c[name][k]]]

\* cache.put(key, response) in bucket name: the entry is added or overwritten
Put(c, name, key, response) ==
    [c EXCEPT ![name] = [k \in DOMAIN c[name] \cup {key} |->
                            IF k = key THEN response ELSE c[name][k]]]

\* the entry of bucket b under key k, Undefined when there is none
Entry(c, b, k) ==
    IF b \in DOMAIN c /\ k \in DOMAIN c[b] THEN c[b][k] ELSE Undefined

\* caches.match(request): the entry of the first bucket that has one
Match(c, key) ==
    IF \E b \in DOMAIN c : key \in DOMAIN c[b]
    THEN IF Entry(c, CACHE_NAME, key) # Undefined THEN c[CACHE_NAME][key]
         ELSE c[CHOOSE b \in DOMAIN c : key \in DOMAIN c[b]][key]
    ELSE Undefined

-----------------------------------------------------------------------------
\* install

\* caches.open(CACHE_NAME), then cache.addAll(APP_SHELL) issues its requests
InstallOpen ==
    /\ swState = "parsed"
    /\ swState' = "installing"
    /\ caches' = Opened(caches, CACHE_NAME)
    /\ assetFetch' = [a \in APP_SHELL |-> "pending"]
    /\ UNCHANGED <<skipWaitingCalled, keysSnapshot, pendingDeletes, clientsClaimed,
                   events, pageVars>>

\* one request of addAll settles; a response that is not ok counts as failed
AddAllFetch(a, outcome) ==
    /\ swState = "installing"
    /\ assetFetch[a] = "pending"
    /\ assetFetch' = [assetFetch EXCEPT ![a] = outcome]
    /\ UNCHANGED <<swState, skipWaitingCalled, caches, keysSnapshot, pendingDeletes,
                   clientsClaimed, events, pageVars>>

\* a batch that fulfilled once every request had settled, failed or not
AddAllFulfilsOnceSettled(results) == \A a \in APP_SHELL : results[a] # "pending"

\* addAll fulfils when every request succeeded
AddAllFulfils(results) == \A a \in APP_SHELL : results[a] = "ok"

\* addAll rejects as soon as one request failed
AddAllRejects(results) == \E a \in APP_SHELL : results[a] = "failed"

\* the batch is stored, .then(() => self.skipWaiting()) runs, waitUntil fulfils
InstallFulfilled ==
    /\ swState = "installing"
    /\ AddAllFulfils(assetFetch)
    /\ caches' = [caches EXCEPT ![CACHE_NAME] =
                     [k \in DOMAIN caches[CACHE_NAME] \cup APP_SHELL |->
                         IF k \in APP_SHELL THEN Response(200, "basic", 1)
                         ELSE caches[CACHE_NAME][k]]]
    /\ skipWaitingCalled' = TRUE
    /\ swState' = "installed"
    /\ UNCHANGED <<assetFetch, keysSnapshot, pendingDeletes, clientsClaimed, events,
                   pageVars>>

\* nothing is stored, the .then is skipped, waitUntil rejects
InstallRejected ==
    /\ swState = "installing"
    /\ AddAllRejects(assetFetch)
    /\ swState' = "redundant"
    /\ UNCHANGED <<assetFetch, skipWaitingCalled, caches, keysSnapshot, pendingDeletes,
                   clientsClaimed, events, pageVars>>

-----------------------------------------------------------------------------
\* activate

\* keys.filter((key) => key !== CACHE_NAME)
StaleKeys(keys) == {k \in keys : k # CACHE_NAME}

\* the activate event: caches.keys() resolves and the deletions are issued
ActivateStart ==
    /\ swState = "installed"
    /\ skipWaitingCalled
    /\ swState' = "activating"
    /\ keysSnapshot' = DOMAIN caches
    /\ pendingDeletes' = StaleKeys(DOMAIN caches)
    /\ UNCHANGED <<assetFetch, skipWaitingCalled, caches, clientsClaimed, events,
                   pageVars>>

\* one caches.delete(key) settles
DeleteBucket(k) ==
    /\ swState = "activating"
    /\ k \in pendingDeletes
    /\ caches' = [b \in DOMAIN caches \ {k} |-> caches[b]]
    /\ pendingDeletes' = pendingDeletes \ {k}
    /\ UNCHANGED <<swState, assetFetch, skipWaitingCalled, keysSnapshot, clientsClaimed,
                   events, pageVars>>

\* a claim that did not wait for the deletions
DeletionsSettledNotAwaited(pending) == TRUE

\* Promise.all(...) has fulfilled
DeletionsSettled(pending) == pending = {}

\* .then(() => self.clients.claim())
ClaimClients ==
    /\ swState = "activating"
    /\ DeletionsSettled(pendingDeletes)
    /\ clientsClaimed' = TRUE
    /\ swState' = "activated"
    /\ UNCHANGED <<assetFetch, skipWaitingCalled, caches, keysSnapshot, pendingDeletes,
                   events, pageVars>>

-----------------------------------------------------------------------------
\* fetch

\* a listener without its method test
InterceptedAnyMethod(method) == TRUE

\* event.request.method !== "GET": the listener returns without respondWith
Intercepted(method) == method = "GET"

\* a fetch event reaches the active worker
Dispatch(url, method) ==
    /\ swState = "activated"
    /\ Len(events) < MaxEvents
    /\ events' = Append(events,
          [url |-> url, method |-> method,
           lookup |-> IF Intercepted(method) THEN "pending" ELSE "none",
           cachedResponse |-> Undefined,
           net |-> "none", networkResponse |-> Undefined,
           put |-> "none",
           answered |-> FALSE, answer |-> Undefined])
    /\ UNCHANGED <<swState, assetFetch, skipWaitingCalled, caches, keysSnapshot,
                   pendingDeletes, clientsClaimed, pageVars>>

\* a listener that always answered with fetchPromise (network first)
AnsweredByCacheNever(cachedResponse) == FALSE

\* if (cachedResponse) return cachedResponse; otherwise the answer is fetchPromise
AnsweredByCache(cachedResponse) == cachedResponse # Undefined

\* caches.match resolves: the fetch is issued, a cached response is the answer
MatchResolved(i) ==
    /\ i \in 1..Len(events)
    /\ events[i].lookup = "pending"
    /\ LET cachedResponse == Match(caches, events[i].url) IN
       events' = [events EXCEPT ![i] =
          [@ EXCEPT !.lookup = "done",
                    !.cachedResponse = cachedResponse,
                    !.net = "pending",
                    !.answered = AnsweredByCache(cachedResponse),
                    !.answer = IF AnsweredByCache(cachedResponse)
                               THEN cachedResponse ELSE Undefined]]
    /\ UNCHANGED <<swState, assetFetch, skipWaitingCalled, caches, keysSnapshot,
                   pendingDeletes, clientsClaimed, pageVars>>

\* a guard without its status test
StorableAnyStatus(networkResponse, url) ==
    /\ networkResponse # Undefined
    /\ networkResponse.type # "opaque"
    /\ ~IsExtensionUrl(url)

\* the negation of the guard of lines 37-42
Storable(networkResponse, url) ==
    /\ networkResponse # Undefined
    /\ networkResponse.status = 200
    /\ networkResponse.type # "opaque"
    /\ ~IsExtensionUrl(url)

\* fetch(event.request) fulfils and its .then runs
NetworkResponds(i, networkResponse) ==
    /\ i \in 1..Len(events)
    /\ events[i].net = "pending"
    /\ events' = [events EXCEPT ![i] =
          [@ EXCEPT !.net = "ok",
                    !.networkResponse = networkResponse,
                    !.put = IF Storable(networkResponse, events[i].url)
                            THEN "pending" ELSE "none",
                    !.answered = TRUE,
                    !.answer = IF events[i].answered THEN events[i].answer
                               ELSE networkResponse]]
    /\ UNCHANGED <<swState, assetFetch, skipWaitingCalled, caches, keysSnapshot,
                   pendingDeletes, clientsClaimed, pageVars>>

\* fetch(event.request) rejects and .catch(() => cachedResponse) runs
NetworkFails(i) ==
    /\ i \in 1..Len(events)
    /\ events[i].net = "pending"
    /\ events' = [events EXCEPT ![i] =
          [@ EXCEPT !.net = "failed",
                    !.answered = TRUE,
                    !.answer = IF events[i].answered THEN events[i].answer
                               ELSE events[i].cachedResponse]]
    /\ UNCHANGED <<swState, assetFetch, skipWaitingCalled, caches, keysSnapshot,
                   pendingDeletes, clientsClaimed, pageVars>>

\* a put keyed by the shell document instead of the request
PutKeyShell(ev) == "/"

\* the key cache.put stores the clone under
PutKey(ev) == ev.url

\* caches.open(CACHE_NAME).then((cache) => cache.put(event.request, responseClone))
CachePut(i) ==
    /\ i \in 1..Len(events)
    /\ events[i].put = "pending"
    /\ caches' = Put(Opened(caches, CACHE_NAME), CACHE_NAME, PutKey(events[i]),
                     events[i].networkResponse)
    /\ events' = [events EXCEPT ![i].put = "done"]
    /\ UNCHANGED <<swState, assetFetch, skipWaitingCalled, keysSnapshot, pendingDeletes,
                   clientsClaimed, pageVars>>

-----------------------------------------------------------------------------
\* Specifications

\* the useState defaults of the history view
ViewInit ==
    /\ currentPage = 1
    /\ searchTerm = ""
    /\ filterPeriod = "All"
    /\ filterCategory = "All"
    /\ filterStartDate = {}
    /\ filterEndDate = {}

PageInit ==
    /\ supabase \in BOOLEAN
    /\ tzOffset \in TzOffsets
    /\ remote \in IF supabase THEN RemoteInits ELSE {{}}
    /\ entries = initialEntries
    /\ isSubmitting = FALSE
    /\ isLoadingEntries = TRUE
    /\ syncError = NoMsg
    /\ statusMessage = NoMsg
    /\ editingId = Null
    /\ deletingId = Null
    /\ submitCount = 0
    /\ deleteCount = 0
    /\ fetchReq = IdleFetch
    /\ submitReq = IdleSubmit
    /\ deleteReqs = <<>>
    /\ ViewInit

\* the page as the worker's model holds it: constructed, nothing done
PageIdle ==
    /\ supabase = FALSE
    /\ tzOffset = 0
    /\ remote = {}
    /\ entries = initialEntries
    /\ isSubmitting = FALSE
    /\ isLoadingEntries = TRUE
    /\ syncError = NoMsg
    /\ statusMessage = NoMsg
    /\ editingId = Null
    /\ deletingId = Null
    /\ submitCount = 0
    /\ deleteCount = 0
    /\ fetchReq = IdleFetch
    /\ submitReq = IdleSubmit
    /\ deleteReqs = <<>>
    /\ ViewInit

SWInit ==
    /\ swState = "parsed"
    /\ assetFetch = [a \in APP_SHELL |-> "none"]
    /\ skipWaitingCalled = FALSE
    /\ caches \in InitialCaches
    /\ keysSnapshot = {}
    /\ pendingDeletes = {}
    /\ clientsClaimed = FALSE
    /\ events = <<>>

\* the worker as the page's model holds it: registered, nothing done
SWIdle ==
    /\ swState = "parsed"
    /\ assetFetch = [a \in APP_SHELL |-> "none"]
    /\ skipWaitingCalled = FALSE
    /\ caches = <<>>
    /\ keysSnapshot = {}
    /\ pendingDeletes = {}
    /\ clientsClaimed = FALSE
    /\ events = <<>>

Init == PageInit /\ SWIdle

Next ==
    \/ LoadEffect
    \/ ServeFetchOk
    \/ ServeFetchError
    \/ FetchComplete
    \/ \E wall \in FormWalls, value \in FormValues, period \in FormPeriods :
          handleSubmit(wall, value, period)
    \/ ServeSubmitOk
    \/ ServeSubmitError
    \/ SubmitComplete
    \/ \E id \in Ids(entries) : handleDelete(id)
    \/ \E i \in 1..Len(deleteReqs), ok \in BOOLEAN : DeleteComplete(i, ok)
    \/ \E id \in Ids(entries) : startEditing(id)
    \/ cancelEditing
    \/ StatusTimer

Spec == Init /\ [][Next]_vars

\* The page with the collections the summary is computed from: the store
\* holds any of the rows below, with two decimals among them, and the form
\* gives a reading of the evening of 2024-05-15 with one decimal.
SummaryRows ==
    { [id |-> 11, value |-> 555, instant |-> 3000, period |-> "Post-Meal"],
      [id |-> 12, value |-> 400, instant |-> 3345, period |-> "Snack"],
      [id |-> 13, value |-> 1210, instant |-> 900, period |-> "Fasting"],
      [id |-> 14, value |-> 561, instant |-> 200, period |-> "Pre-Meal"] }

SummaryRemotes == SUBSET SummaryRows
SummaryWalls == {1200}
SummaryValues == {600}

InitSummary ==
    /\ supabase \in BOOLEAN
    /\ tzOffset \in TzOffsets
    /\ remote \in IF supabase THEN SummaryRemotes ELSE {{}}
    /\ entries = initialEntries
    /\ isSubmitting = FALSE
    /\ isLoadingEntries = TRUE
    /\ syncError = NoMsg
    /\ statusMessage = NoMsg
    /\ editingId = Null
    /\ deletingId = Null
    /\ submitCount = 0
    /\ deleteCount = 0
    /\ fetchReq = IdleFetch
    /\ submitReq = IdleSubmit
    /\ deleteReqs = <<>>
    /\ ViewInit
    /\ SWIdle

NextSummary ==
    \/ LoadEffect
    \/ ServeFetchOk
    \/ ServeFetchError
    \/ FetchComplete
    \/ \E wall \in SummaryWalls, value \in SummaryValues, period \in FormPeriods :
          handleSubmit(wall, value, period)
    \/ ServeSubmitOk
    \/ ServeSubmitError
    \/ SubmitComplete
    \/ \E id \in Ids(entries) : handleDelete(id)
    \/ \E i \in 1..Len(deleteReqs), ok \in BOOLEAN : DeleteComplete(i, ok)

SpecSummary == InitSummary /\ [][NextSummary]_vars

\* The page with a history long enough for three pages and more than eight
\* days: the store holds 21 rows, two a day, one late in the evening (UTC) and
\* one in the morning; the two oldest are the only Fasting ones; values run
\* from 4.00 to 9.00.
ViewRows ==
    { [id |-> 11 + k,
       value |-> 400 + 25 * k,
       instant |-> 1440 * (k \div 2) + (IF k % 2 = 0 THEN 1300 ELSE 400),
       period |-> IF k < 2 THEN "Fasting" ELSE IF k % 2 = 0 THEN "Pre-Meal" ELSE "Post-Meal"]
      : k \in 0..20 }

ViewRemotes == {{}, ViewRows}

\* what the user does in the history view
ViewDeleteIds == {1, 11}
ViewTerms == {"", "fasting"}
ViewPeriods == {"All", "Pre-Meal"}
ViewCategories == {"All", "high"}
ViewStartDates == {{}, {5}}
ViewEndDates == {{}, {8}}

InitView ==
    /\ supabase \in BOOLEAN
    /\ tzOffset \in TzOffsets
    /\ remote \in IF supabase THEN ViewRemotes ELSE {{}}
    /\ entries = initialEntries
    /\ isSubmitting = FALSE
    /\ isLoadingEntries = TRUE
    /\ syncError = NoMsg
    /\ statusMessage = NoMsg
    /\ editingId = Null
    /\ deletingId = Null
    /\ submitCount = 0
    /\ deleteCount = 0
    /\ fetchReq = IdleFetch
    /\ submitReq = IdleSubmit
    /\ deleteReqs = <<>>
    /\ ViewInit
    /\ SWIdle

NextView ==
    \/ LoadEffect
    \/ ServeFetchOk
    \/ ServeFetchError
    \/ FetchComplete
    \/ \E wall \in SummaryWalls, value \in SummaryValues, period \in FormPeriods :
          handleSubmit(wall, value, period)
    \/ ServeSubmitOk
    \/ ServeSubmitError
    \/ SubmitComplete
    \/ \E id \in ViewDeleteIds : handleDelete(id)
    \/ \E i \in 1..Len(deleteReqs), ok \in BOOLEAN : DeleteComplete(i, ok)
    \/ \E term \in ViewTerms : setSearchTerm(term)
    \/ \E date \in ViewStartDates : setFilterStartDate(date)
    \/ \E date \in ViewEndDates : setFilterEndDate(date)
    \/ \E period \in ViewPeriods : setFilterPeriod(period)
    \/ \E category \in ViewCategories : setFilterCategory(category)
    \/ resetHistoryFilters
    \/ PrevPage
    \/ NextPage

SpecView == InitView /\ [][NextView]_vars

\* The page with the same history and the history view left as it is: what
\* the chart shows depends on the collection only. The user deletes the two
\* newest readings of the store or a sample one.
ChartDeleteIds == {1, 30, 31}

NextChart ==
    \/ LoadEffect
    \/ ServeFetchOk
    \/ ServeFetchError
    \/ FetchComplete
    \/ \E wall \in SummaryWalls, value \in SummaryValues, period \in FormPeriods :
          handleSubmit(wall, value, period)
    \/ ServeSubmitOk
    \/ ServeSubmitError
    \/ SubmitComplete
    \/ \E id \in ChartDeleteIds : handleDelete(id)
    \/ \E i \in 1..Len(deleteReqs), ok \in BOOLEAN : DeleteComplete(i, ok)

SpecChart == InitView /\ [][NextChart]_vars

\* the page's scheduling: once the promise of a store call has settled the
\* continuation of the handler that awaits it runs
SpecSummaryFair ==
    SpecSummary /\ WF_vars(FetchComplete) /\ WF_vars(SubmitComplete)

InitSW == PageIdle /\ SWInit

NextSW ==
    \/ InstallOpen
    \/ \E a \in APP_SHELL, outcome \in {"ok", "failed"} : AddAllFetch(a, outcome)
    \/ InstallFulfilled
    \/ InstallRejected
    \/ ActivateStart
    \/ \E k \in pendingDeletes : DeleteBucket(k)
    \/ ClaimClients
    \/ \E url \in Urls, method \in Methods : Dispatch(url, method)
    \/ \E i \in 1..Len(events) : MatchResolved(i)
    \/ \E i \in 1..Len(events), r \in NetResponses : NetworkResponds(i, r)
    \/ \E i \in 1..Len(events) : NetworkFails(i)
    \/ \E i \in 1..Len(events) : CachePut(i)

SpecSW == InitSW /\ [][NextSW]_vars

-----------------------------------------------------------------------------
\* Steps of the page, as the claims speak of them

\* the continuation of a handleSubmit call runs, the store call having failed
SubmitFails == submitReq.phase = "error" /\ submitReq'.phase = "idle"

\* the continuation of the i-th handleDelete call runs, the store call having failed
DeleteFails(i) ==
    /\ i \in 1..Len(deleteReqs)
    /\ deleteReqs' = RemoveAt(deleteReqs, i)
    /\ statusMessage' = MsgDeleteFailed

\* the draft is in the collection after a failed create
FailedCreateKeepsDraft ==
    (SubmitFails /\ submitReq.editingId = Null) =>
        /\ Len(entries') = Len(entries) + 1
        /\ \A e \in Range(entries) \cup {submitReq.draft} :
              Cardinality({k \in 1..Len(entries') : entries'[k] = e})
                = Cardinality({k \in 1..Len(entries) : entries[k] = e})
                  + (IF e = submitReq.draft THEN 1 ELSE 0)

\* the draft stands for the entry of its id after a failed update
FailedUpdateReplaces ==
    (SubmitFails /\ submitReq.editingId # Null) =>
        /\ Len(entries') = Len(entries)
        /\ Ids(entries') = Ids(entries)
        /\ \A k \in 1..Len(entries') :
              IF entries'[k].id = submitReq.draft.id
              THEN entries'[k] = submitReq.draft
              ELSE entries'[k] \in Range(entries)

\* C1, as stated: after a failed create, update or delete the collection is the
\* one the successful mutation would have left: the draft added, the entry of
\* the same id replaced, the entry removed.
C1_FailedMutationAppliedLocally ==
    [][ /\ FailedCreateKeepsDraft
        /\ FailedUpdateReplaces
        /\ \A i \in 1..Len(deleteReqs) :
              DeleteFails(i) =>
                 /\ deleteReqs[i].id \notin Ids(entries')
                 /\ Range(entries') = {e \in Range(entries) : e.id # deleteReqs[i].id}
      ]_vars

\* C1, amended: after a failed create the draft is added and after a failed
\* update the entry of the same id is replaced, as the successful mutation would
\* have done; after a failed delete the collection is left as it was.
C1_FailedSubmitAppliedFailedDeleteKept ==
    [][ /\ FailedCreateKeepsDraft
        /\ FailedUpdateReplaces
        /\ \A i \in 1..Len(deleteReqs) : DeleteFails(i) => entries' = entries
      ]_vars

\* a create has failed, its draft is in the collection, and then the delete of
\* a sample reading has failed and the reading is still there
C1_Witness ==
    /\ supabase
    /\ statusMessage = MsgDeleteFailed
    /\ deleteReqs = <<>>
    /\ deleteCount = 1
    /\ Len(entries) = 5
    /\ \E k \in 1..Len(entries) : entries[k].id = 101 /\ entries[k].date.fmt = "iso"

\* C2: no two readings of the collection have the same id.
C2_UniqueIds ==
    \A i, j \in 1..Len(entries) : i # j => entries[i].id # entries[j].id

\* C3: the collection is ordered descending by the instant of each reading's
\* timestamp.
C3_DescendingByInstant ==
    \A k \in 1..(Len(entries) - 1) :
        Instant(entries[k].date) >= Instant(entries[k + 1].date)

-----------------------------------------------------------------------------
\* The service worker's claims

\* the worker's scheduling: a cache.put that was issued takes place
SpecSWFair == SpecSW /\ \A i \in 1..MaxEvents : WF_vars(CachePut(i))

EventIds == 1..Len(events)
CacheKeys == Urls \cup APP_SHELL

\* the i-th interception's cache.put takes place in this step
PutHappens(i) ==
    /\ i \in 1..Len(events)
    /\ events[i].put = "pending"
    /\ events'[i].put = "done"

\* C4: a GET whose cache lookup found an entry is answered with that entry as
\* soon as the lookup resolves, whether the network fetch is still pending, has
\* succeeded or has failed.
C4_CachedAnswerWins ==
    \A i \in EventIds :
        (events[i].lookup = "done" /\ events[i].cachedResponse # Undefined) =>
            /\ events[i].answered
            /\ events[i].answer = events[i].cachedResponse

\* one request answered from the cache while its fetch is pending, another one
\* answered from the cache although its fetch failed
C4_Witness ==
    \E i, j \in EventIds :
        /\ events[i].cachedResponse # Undefined /\ events[i].net = "pending"
        /\ events[i].answered /\ events[i].answer = events[i].cachedResponse
        /\ events[j].cachedResponse # Undefined /\ events[j].net = "failed"
        /\ events[j].answered /\ events[j].answer = events[j].cachedResponse

\* C5: a GET with no cache entry whose network fetch fails does not complete
\* with an absent response value.
C5_FailureSurfaced ==
    \A i \in EventIds :
        (events[i].lookup = "done" /\ events[i].cachedResponse = Undefined
            /\ events[i].net = "failed") =>
            ~(events[i].answered /\ events[i].answer = Undefined)

\* C6: the network response is written to the current bucket under the
\* request's key, overwriting what was there, iff the fetch succeeded with
\* status 200, not opaque, for a url that is not chrome-extension; otherwise the
\* entry is left as it was.
C6_StoredIffPlain200 ==
    /\ [](\A i \in EventIds :
            (events[i].put # "none") <=>
               /\ events[i].net = "ok"
               /\ events[i].networkResponse.status = 200
               /\ events[i].networkResponse.type # "opaque"
               /\ ~IsExtensionUrl(events[i].url))
    /\ [][swState = "activated" =>
            /\ \A i \in EventIds :
                  PutHappens(i) =>
                     Entry(caches', CACHE_NAME, events[i].url) = events[i].networkResponse
            /\ \A b \in DOMAIN caches \cup DOMAIN caches', k \in CacheKeys :
                  Entry(caches', b, k) # Entry(caches, b, k) =>
                     /\ b = CACHE_NAME
                     /\ \E i \in EventIds : PutHappens(i) /\ events[i].url = k
       ]_vars
    /\ \A i \in 1..MaxEvents :
          (i \in EventIds /\ events[i].put = "pending")
             ~> (i \in EventIds /\ events[i].put = "done")

\* a 200 response has overwritten the shell's entry, while a 404 and a response
\* for an extension url were left out of the cache
C6_Witness ==
    /\ Entry(caches, CACHE_NAME, "/").version = 2
    /\ \E i, j \in EventIds :
          /\ events[i].url = "/" /\ events[i].put = "done"
          /\ events[j].net = "ok" /\ events[j].put = "none"
          /\ events[j].networkResponse.status = 404

\* C7: install is all-or-nothing: once the fetch of one shell asset has failed
\* skipWaiting is never called and the worker never gets past installing; the
\* worker is installed or active only with every shell asset in the current
\* bucket.
C7_InstallAllOrNothing ==
    /\ (\E a \in APP_SHELL : assetFetch[a] = "failed") =>
          /\ ~skipWaitingCalled
          /\ swState \in {"installing", "redundant"}
    /\ (skipWaitingCalled \/ swState \in {"installed", "activating", "activated"}) =>
          /\ \A a \in APP_SHELL : assetFetch[a] = "ok"
          /\ \A a \in APP_SHELL : Entry(caches, CACHE_NAME, a) # Undefined

\* an install that failed after some of the assets had been fetched
C7_Witness ==
    /\ swState = "redundant"
    /\ \E a, b \in APP_SHELL : assetFetch[a] = "failed" /\ assetFetch[b] = "ok"
    /\ \A a \in APP_SHELL : Entry(caches, CACHE_NAME, a) = Undefined

\* C8: when the clients are claimed every bucket that activation found under
\* another name than the current one is gone, no deletion is pending, and the
\* current bucket is there.
C8_StaleBucketsGoneBeforeClaim ==
    clientsClaimed =>
        /\ pendingDeletes = {}
        /\ \A k \in keysSnapshot : k # CACHE_NAME => k \notin DOMAIN caches
        /\ CACHE_NAME \in keysSnapshot
        /\ CACHE_NAME \in DOMAIN caches

\* the clients were claimed after two stale buckets had been deleted
C8_Witness ==
    /\ clientsClaimed
    /\ Cardinality(keysSnapshot) = 3
    /\ DOMAIN caches = {CACHE_NAME}

\* C9: a request that is not a GET gets no cache lookup, no fetch by the worker
\* and no cache write, and its event leaves the caches as they were.
C9_NonGetUntouched ==
    /\ [](\A i \in EventIds :
            events[i].method # "GET" =>
               /\ events[i].lookup = "none"
               /\ events[i].net = "none"
               /\ events[i].put = "none"
               /\ ~events[i].answered)
    /\ [][(Len(events') = Len(events) + 1 /\ events'[Len(events')].method # "GET")
             => caches' = caches]_vars

\* a POST was dispatched while a GET for the same url went through the cache
C9_Witness ==
    \E i, j \in EventIds :
        /\ events[i].method = "POST" /\ events[i].url = "/app.js"
        /\ events[j].method = "GET" /\ events[j].url = "/app.js"
        /\ events[j].put = "done"

\* C10: with several interceptions in flight each one reads the entry of its
\* own key and writes only that entry, which then equals its response: the
\* last write to a key is the one that stays.
C10_OwnKeyLastWriteWins ==
    [][swState = "activated" =>
        /\ \A i \in EventIds :
              (events[i].lookup = "pending" /\ events'[i].lookup = "done") =>
                 events'[i].cachedResponse = Entry(caches, CACHE_NAME, events[i].url)
        /\ \A i \in EventIds :
              PutHappens(i) =>
                 /\ Entry(caches', CACHE_NAME, events[i].url) = events[i].networkResponse
                 /\ \A k \in CacheKeys \ {events[i].url} :
                       Entry(caches', CACHE_NAME, k) = Entry(caches, CACHE_NAME, k)
      ]_vars

\* two interceptions of one url both wrote; the first one's write came last
C10_Witness ==
    /\ Len(events) = 2
    /\ events[1].url = "/app.js" /\ events[2].url = "/app.js"
    /\ events[1].put = "done" /\ events[2].put = "done"
    /\ events[1].networkResponse.version = 1
    /\ events[2].networkResponse.version = 2
    /\ Entry(caches, CACHE_NAME, "/app.js") = events[1].networkResponse

\* the i-th interception's cache lookup resolves in this step
LookupResolves(i) ==
    /\ i \in 1..Len(events)
    /\ events[i].lookup = "pending"
    /\ events'[i].lookup = "done"

\* C11, as stated: a GET served from the cache has issued its network fetch, and
\* once the cache write of an interception has completed a GET for the same key
\* is answered, in every later state, with the response that interception
\* fetched.
C11_RefreshSeenByEveryLaterGet ==
    \A i \in EventIds :
        /\ (events[i].lookup = "done" /\ events[i].cachedResponse # Undefined) =>
              events[i].net # "none"
        /\ events[i].put = "done" =>
              /\ AnsweredByCache(Match(caches, events[i].url))
              /\ Match(caches, events[i].url) = events[i].networkResponse

\* C11, amended: a GET served from the cache has issued its network fetch; when
\* the cache write of an interception completes the entry of its key is the
\* response it fetched; the entry of a key changes only when the write of an
\* interception for that key completes; and a GET whose lookup finds an entry is
\* answered with the entry as it is then.  A later GET therefore gets the newer
\* response until the write of another interception for the same key completes,
\* and from then on that one's response, fetched earlier or later.
C11_RefreshSeenUntilNextWrite ==
    /\ [](\A i \in EventIds :
            (events[i].lookup = "done" /\ events[i].cachedResponse # Undefined) =>
               events[i].net # "none")
    /\ [][swState = "activated" =>
            /\ \A i \in EventIds :
                  PutHappens(i) =>
                     Match(caches', events[i].url) = events[i].networkResponse
            /\ \A k \in CacheKeys :
                  Match(caches', k) # Match(caches, k) =>
                     \E i \in EventIds : PutHappens(i) /\ events[i].url = k
            /\ \A j \in EventIds :
                  (LookupResolves(j) /\ Match(caches, events[j].url) # Undefined) =>
                     /\ events'[j].answered
                     /\ events'[j].answer = Match(caches, events[j].url)
                     /\ events'[j].net = "pending"
       ]_vars

\* the shell document was served from the cache as installed while its fetch
\* brought a newer version, the write completed, and the next GET got that one
C11_Witness ==
    /\ Len(events) = 2
    /\ events[1].url = "/" /\ events[2].url = "/"
    /\ events[1].answer = Response(200, "basic", 1)
    /\ events[1].networkResponse = Response(200, "basic", 2)
    /\ events[1].put = "done"
    /\ events[2].lookup = "done"
    /\ events[2].answered
    /\ events[2].answer = events[1].networkResponse

-----------------------------------------------------------------------------
\* The page without a store, the load, the busy flags, the periods

\* C12: without a store client the collection is the bundled sample set until
\* the first mutation, and once the load effect has run the sync warning is set
\* and stays set through every create, update and delete.
C12_WarningPermanentWithoutStore ==
    ~supabase =>
        /\ fetchReq.phase # "init" => syncError = SyncNotConfigured /\ syncError # NoMsg
        /\ (submitCount = 0 /\ deleteCount = 0) => entries = initialEntries

\* without a store a sample reading was edited and another one deleted, and the
\* warning is still shown
C12_Witness ==
    /\ ~supabase
    /\ syncError = SyncNotConfigured
    /\ submitCount = 1 /\ deleteCount = 1
    /\ Len(entries) = 3
    /\ \E k \in 1..Len(entries) : entries[k].id \in 1..4 /\ entries[k].date.fmt = "iso"

\* the continuation of fetchEntries runs, the select having failed
FetchFails == fetchReq.phase = "error" /\ fetchReq'.phase = "done"

\* C13: when the initial select fails the collection is left as it was (the
\* bundled sample set when nothing was saved meanwhile), the sync warning is
\* set and the loading flag is cleared.
C13_FailedLoadKeepsCollection ==
    [][FetchFails =>
          /\ entries' = entries
          /\ submitCount = 0 => entries' = initialEntries
          /\ syncError' = SyncUnavailable /\ syncError' # NoMsg
          /\ ~isLoadingEntries'
      ]_vars

\* the select has failed and the sample set is shown with the warning
C13_Witness ==
    /\ supabase
    /\ fetchReq.phase = "done"
    /\ syncError = SyncUnavailable
    /\ ~isLoadingEntries
    /\ entries = initialEntries

\* C14: while a submit is in flight no second submit can be started, and while
\* a delete of a reading is in flight no second delete of that reading is in
\* flight or can be started.
C14_OneRequestPerAction ==
    /\ submitReq.phase # "idle" => ~SubmitEnabled
    /\ \A i, j \in 1..Len(deleteReqs) :
          i # j => deleteReqs[i].id # deleteReqs[j].id
    /\ \A i \in 1..Len(deleteReqs) : ~DeleteEnabled(deleteReqs[i].id)

\* a handleSubmit or handleDelete call runs to its end in this step without a
\* store client
LocalMutation ==
    /\ ~supabase
    /\ submitCount' # submitCount \/ deleteCount' # deleteCount

\* C15: without store credentials every create, update and delete ends with a
\* warning as the status message, and no success message is ever shown.
C15_LocalMutationsWarn ==
    /\ [][LocalMutation => statusMessage' \in WarningMessages]_vars
    /\ [](~supabase => statusMessage \notin SuccessMessages)

\* the period an entry gets from a row of the store
Defaulted(period) == IF period \in {"Fasting", "Pre-Meal", "Post-Meal"} THEN period ELSE "Fasting"

\* period values a row of the store may carry
RowPeriods == {"Fasting", "Pre-Meal", "Post-Meal", "Snack", "", "fasting"}

\* the continuation of fetchEntries runs, the select having succeeded
FetchSucceeds == fetchReq.phase = "ok" /\ fetchReq'.phase = "done"

\* the continuation of handleSubmit runs, the store call having succeeded
SubmitSucceeds == submitReq.phase = "ok" /\ submitReq'.phase = "idle"

\* C16: every reading of the collection has one of the three periods, and a row
\* of the store (loaded, or answered to an insert or an update) becomes a
\* reading with its own period when that is one of the three and with Fasting
\* otherwise.
C16_PeriodsEnumerated ==
    /\ [](\A k \in 1..Len(entries) : entries[k].period \in {"Fasting", "Pre-Meal", "Post-Meal"})
    /\ [](\A p \in RowPeriods :
            mapRowToEntry([id |-> 11, value |-> 900, period |-> p,
                           reading_date |-> [clock |-> 3000, fmt |-> "tz"]]).period
               = Defaulted(p))
    /\ [][FetchSucceeds =>
            /\ Len(entries') = Len(fetchReq.data)
            /\ \A k \in 1..Len(entries') :
                  entries'[k].period = Defaulted(fetchReq.data[k].period)
       ]_vars
    /\ [][SubmitSucceeds =>
            \A k \in 1..Len(entries') :
                entries'[k].id = submitReq.data.id =>
                   entries'[k].period = Defaulted(submitReq.data.period)
       ]_vars

\* the store's row with period Snack is in the collection with period Fasting
C16_Witness ==
    /\ \E r \in remote : r.id = 12 /\ r.period = "Snack"
    /\ \E k \in 1..Len(entries) : entries[k].id = 12 /\ entries[k].period = "Fasting"
    /\ \E k \in 1..Len(entries) : entries[k].id = 101 /\ entries[k].period = "Post-Meal"

-----------------------------------------------------------------------------
\* The summary

MinValue(list) ==
    CHOOSE v \in {list[k].value : k \in 1..Len(list)} :
        \A k \in 1..Len(list) : v <= list[k].value

MaxValue(list) ==
    CHOOSE v \in {list[k].value : k \in 1..Len(list)} :
        \A k \in 1..Len(list) : v >= list[k].value

\* every value of the list has at most one decimal
OneDecimal(list) == \A k \in 1..Len(list) : list[k].value % 10 = 0

\* C17, as stated: for a non-empty collection average, recentAverage and trend
\* each lie between the least and the greatest value of the collection.
C17_SummaryWithinMinMax ==
    Len(entries) > 0 =>
        LET a == averages(entries) IN
        \A x \in {a.average, a.recent, a.trend} :
            MinValue(entries) <= x /\ x <= MaxValue(entries)

\* C17, amended: for a non-empty collection average and recentAverage lie
\* within 0.05 of the interval from the least to the greatest value, and inside
\* it when no value has more than one decimal; trend lies within 0.05 of the
\* interval from -(max - min) to max - min.
C17_MeansNearMinMaxTrendNearSpread ==
    Len(entries) > 0 =>
        LET a == averages(entries)
            lo == MinValue(entries)
            hi == MaxValue(entries)
        IN /\ \A x \in {a.average, a.recent} :
                 /\ lo - 5 < x /\ x <= hi + 5
                 /\ OneDecimal(entries) => (lo <= x /\ x <= hi)
           /\ -(hi - lo) - 5 < a.trend /\ a.trend <= (hi - lo) + 5

\* the only reading left has two decimals: the average is above it after
\* rounding, and the trend, 0, is below it
C17_Witness ==
    /\ Len(entries) = 1
    /\ deleteCount >= 1
    /\ averages(entries).average > MaxValue(entries)
    /\ averages(entries).trend < MinValue(entries)

\* C18: for the empty collection the summary is average 0, recentAverage 0,
\* trend 0.
C18_EmptySummaryIsZero ==
    Len(entries) = 0 => averages(entries) = [average |-> 0, recent |-> 0, trend |-> 0]

\* the last reading was deleted and the summary is all zero
C18_Witness ==
    /\ entries = <<>>
    /\ deleteCount >= 1
    /\ deleteReqs = <<>>
    /\ statusMessage = MsgDeleted
    /\ averages(entries).average = 0

\* the sets of min(3, n) readings of the list with the latest instants
LatestThree(list) ==
    {T \in SUBSET (1..Len(list)) :
        /\ Cardinality(T) = Min(3, Len(list))
        /\ \A i \in T, j \in (1..Len(list)) \ T :
              Instant(list[i].date) >= Instant(list[j].date)}

RECURSIVE SumValues(_, _)
SumValues(list, T) ==
    IF T = {} THEN 0
    ELSE LET i == CHOOSE i \in T : TRUE IN list[i].value + SumValues(list, T \ {i})

\* t, a number of hundredths, is num / den rounded to one decimal, half up
IsRoundedToTenth(t, num, den) ==
    /\ t % 10 = 0
    /\ (t - 5) * den <= num
    /\ num < (t + 5) * den

\* C19: recentAverage is the mean, rounded to one decimal, of the values of the
\* three readings with the latest timestamps (of all when there are fewer).
C19_RecentIsMeanOfLatestThree ==
    Len(entries) > 0 =>
        \E T \in LatestThree(entries) :
            IsRoundedToTenth(averages(entries).recent, SumValues(entries, T), Cardinality(T))

\* C20, as stated: trend is recentAverage minus average, both as the summary
\* gives them, and is positive exactly when recentAverage is greater than
\* average.
C20_TrendIsDifferenceOfOutputs ==
    LET a == averages(entries) IN
    /\ a.trend = a.recent - a.average
    /\ a.trend > 0 <=> a.recent > a.average

\* C20, amended: trend is the difference between the mean of the first three
\* readings of the collection and the mean of all, both unrounded, rounded to
\* one decimal; it is positive exactly when that difference is 0.05 or more,
\* and it is within 0.1 of recentAverage minus average as the summary gives
\* them.  For the empty collection it is 0.
C20_TrendIsRoundedDifferenceOfMeans ==
    LET a == averages(entries)
        n == Len(entries)
        m == Min(3, n)
        S == SumValues(entries, 1..n)
        R == SumValues(entries, 1..m)
    IN IF n = 0 THEN a.trend = 0
       ELSE /\ IsRoundedToTenth(a.trend, R * n - S * m, m * n)
            /\ a.trend > 0 <=> R * n - S * m >= 5 * m * n
            /\ a.trend - (a.recent - a.average) \in {-10, 0, 10}

\* the bundled sample set: average 6.3, recentAverage 6.7, trend 0.3
C20_Witness ==
    /\ fetchReq.phase # "init"
    /\ entries = initialEntries
    /\ averages(entries) = [average |-> 630, recent |-> 670, trend |-> 30]

-----------------------------------------------------------------------------
\* The history view

\* the local calendar day of a reading
LocalDay(e) == (Instant(e.date) + tzOffset) \div 1440

\* low below 4.4, high above 7.8, good otherwise
CategoryOf(e) ==
    IF e.value < 440 THEN "low" ELSE IF e.value > 780 THEN "high" ELSE "good"

\* the predicates of the filter, by name
Passes(name, e) ==
    CASE name = "date" ->
            /\ \A d \in filterStartDate : LocalDay(e) >= d
            /\ \A d \in filterEndDate : LocalDay(e) <= d
      [] name = "period" -> filterPeriod = "All" \/ e.period = filterPeriod
      [] name = "category" -> filterCategory = "All" \/ CategoryOf(e) = filterCategory
      [] name = "text" ->
            \/ searchTerm = ""
            \/ searchTerm = "fasting" /\ e.period = "Fasting"
            \/ searchTerm = "meal" /\ e.period \in {"Pre-Meal", "Post-Meal"}

\* the readings of list that pass one predicate, in the order of list
RECURSIVE Select(_, _)
Select(list, name) ==
    IF list = <<>> THEN <<>>
    ELSE (IF Passes(name, Head(list)) THEN <<Head(list)>> ELSE <<>>)
         \o Select(Tail(list), name)

\* the predicates of order applied one after the other
RECURSIVE SelectAll(_, _)
SelectAll(list, order) ==
    IF order = <<>> THEN list ELSE SelectAll(Select(list, Head(order)), Tail(order))

\* the orders in which the predicates of names can be applied
Orders(names) ==
    {order \in [1..Cardinality(names) -> names] :
        \A i, j \in 1..Cardinality(names) : i # j => order[i] # order[j]}

StructuredOrders == Orders({"date", "period", "category"})

AllOrders == Orders({"date", "period", "category", "text"})

\* C21, as stated: a reading is kept iff its local day is within the date
\* bounds that are set, its period is the one filtered for (or none is) and its
\* category is the one filtered for (or none is); the order of the predicates
\* does not matter.
C21_KeptIffDatePeriodCategory ==
    LET kept == filteredEntries
        keptSet == Range(kept)
    IN  /\ \A k \in 1..Len(entries) :
              entries[k] \in keptSet <=>
                 \A name \in {"date", "period", "category"} : Passes(name, entries[k])
        /\ \A order \in StructuredOrders : SelectAll(entries, order) = kept

\* C21, amended: a reading is kept iff it passes the date, period and category
\* predicates and, when a search term is set, one of its text fields contains
\* the term; the filtered set is the collection's readings that pass, in the
\* collection's order, whatever the order the four predicates are applied in.
C21_KeptIffDatePeriodCategoryText ==
    LET kept == filteredEntries
        keptSet == Range(kept)
    IN  /\ \A k \in 1..Len(entries) :
              entries[k] \in keptSet <=>
                 \A name \in {"date", "period", "category", "text"} :
                    Passes(name, entries[k])
        /\ \A order \in AllOrders : SelectAll(entries, order) = kept

\* of the 21 loaded readings the two Fasting ones are kept by the search term,
\* with an end date set that they pass
C21_Witness ==
    /\ Len(entries) = 21
    /\ searchTerm = "fasting"
    /\ filterEndDate = {8}
    /\ filterPeriod = "All" /\ filterCategory = "All"
    /\ Len(filteredEntries) = 2

\* the slices of pages first..last of the filtered set, one after the other
RECURSIVE PagesConcatenated(_, _)
PagesConcatenated(first, last) ==
    IF first > last THEN <<>>
    ELSE paginatedOf(filteredEntries, first) \o PagesConcatenated(first + 1, last)

\* C22: for a filtered set of n readings the number of pages is max(1,
\* ceil(n / 10)), and the slices of pages 1..totalPages, one after the other,
\* are the filtered set: same order, nothing twice, nothing left out.
C22_PagesPartitionFilteredSet ==
    LET n == Len(filteredEntries) IN
    /\ totalPages >= 1
    /\ 10 * totalPages >= n
    /\ totalPages > 1 => 10 * (totalPages - 1) < n
    /\ PagesConcatenated(1, totalPages) = filteredEntries
    /\ \A page \in 1..totalPages :
          /\ Len(paginatedOf(filteredEntries, page)) <= 10
          /\ n > 0 => Len(paginatedOf(filteredEntries, page)) >= 1

\* 21 readings on three pages, the third one shown with its single reading
C22_Witness ==
    /\ Len(filteredEntries) = 21
    /\ totalPages = 3
    /\ currentPage = 3
    /\ Len(paginatedEntries) = 1

\* C23: the current page is between 1 and max(1, ceil(filteredCount / 10)), so
\* the page shown has a reading whenever the filtered set has one.
C23_PageWithinRange ==
    /\ currentPage >= 1
    /\ currentPage <= totalPages
    /\ 10 * (currentPage - 1) < Max(1, Len(filteredEntries))
    /\ Len(filteredEntries) > 0 => Len(paginatedEntries) > 0

\* the only reading of page 3 was deleted and the view is on page 2, the last
C23_Witness ==
    /\ Len(entries) = 20
    /\ 11 \notin Ids(entries)
    /\ statusMessage = MsgDeleted
    /\ searchTerm = "" /\ filterPeriod = "All" /\ filterCategory = "All"
    /\ filterStartDate = {} /\ filterEndDate = {}
    /\ currentPage = 2
    /\ totalPages = 2

-----------------------------------------------------------------------------
\* The chart

\* the local calendar days that have a reading
DaysPresent == {LocalDay(entries[k]) : k \in 1..Len(entries)}

\* the days of the chart's points
ChartDays == LET points == chartData(entries) IN {points[i].dateKey : i \in 1..Len(points)}

SeriesPeriods ==
    { <<"fasting", "Fasting">>, <<"preMeal", "Pre-Meal">>, <<"postMeal", "Post-Meal">> }

\* the min(8, number of days present) most recent days that have a reading
LatestDays ==
    LET days == DaysPresent IN {d \in days : Cardinality({x \in days : x > d}) < 8}

\* C25, as stated: a period's series is rendered iff some reading of the whole
\* collection has that period, and the legend iff some series is rendered.
C25_SeriesIffPeriodInCollection ==
    /\ \A sp \in SeriesPeriods :
          HasSeries(entries, sp[1]) <=> \E k \in 1..Len(entries) : entries[k].period = sp[2]
    /\ shouldShowLegend(entries) <=> \E sp \in SeriesPeriods : HasSeries(entries, sp[1])

\* C25, amended: a period's series is rendered iff some reading on one of the
\* days of the chart (the eight most recent days that have a reading) has that
\* period, and the legend iff some series is rendered.
C25_SeriesIffPeriodInChartDays ==
    LET latest == LatestDays
        rendered == {sp \in SeriesPeriods : HasSeries(entries, sp[1])}
    IN  /\ \A sp \in SeriesPeriods :
              sp \in rendered <=>
                 \E k \in 1..Len(entries) :
                    entries[k].period = sp[2] /\ LocalDay(entries[k]) \in latest
        /\ shouldShowLegend(entries) <=> rendered # {}

\* the Fasting readings are older than the chart's eight days: no Fasting
\* series, while the other two and the legend are rendered
C25_Witness ==
    /\ Len(entries) = 21
    /\ \E k \in 1..Len(entries) : entries[k].period = "Fasting"
    /\ ~HasSeries(entries, "fasting")
    /\ HasSeries(entries, "preMeal")
    /\ HasSeries(entries, "postMeal")
    /\ shouldShowLegend(entries)

-----------------------------------------------------------------------------
\* CSV export

\* the reading of the filtered set a row was written for
ReadingOfRow(row) == CHOOSE e \in Range(filteredEntries) : e.id = row.id

\* C26: the export writes the header and then one row per reading of the
\* filtered set, the rows in descending order of the readings' instants.
C26_ExportIsFilteredSetNewestFirst ==
    Len(filteredEntries) > 0 =>
        \A rows \in CsvRows(filteredEntries) :
            /\ CsvHeader[1] = "Reading Date"
            /\ Len(rows) = Len(filteredEntries)
            /\ \A e \in Range(filteredEntries) :
                  Cardinality({k \in 1..Len(rows) : rows[k].id = e.id})
                     = Cardinality({k \in 1..Len(filteredEntries) :
                                       filteredEntries[k].id = e.id})
            /\ \A k \in 1..(Len(rows) - 1) :
                  Instant(ReadingOfRow(rows[k]).date)
                     >= Instant(ReadingOfRow(rows[k + 1]).date)

\* C29: in each exported row the date column and the time column are in one
\* time zone, UTC or the local one, and together give the reading's instant.
C29_RowDateAndTimeInOneZone ==
    Len(filteredEntries) > 0 =>
        \A rows \in CsvRows(filteredEntries) :
            \A k \in 1..Len(rows) :
                LET written == 1440 * rows[k].date + rows[k].time
                    instant == Instant(ReadingOfRow(rows[k]).date)
                IN written = instant \/ written = instant + tzOffset

-----------------------------------------------------------------------------
\* The load against the mutations, editing, the busy flags

\* C27: when the result of the initial select replaces the collection, no
\* reading that a submit has put into the collection meanwhile is lost.
C27_LoadKeepsEarlierMutations ==
    [][FetchSucceeds =>
          \A e \in Range(entries) \ Range(initialEntries) : e \in Range(entries')
      ]_vars

\* C28: while the form is in editing mode a reading with the edited id is in
\* the collection.
C28_EditedReadingExists ==
    editingId # Null => editingId \in Ids(entries)

\* the continuation of a handleDelete call runs in this step
DeleteCompletes == Len(deleteReqs') < Len(deleteReqs)

\* the continuation of handleSubmit runs in this step
SubmitCompletes == submitReq.phase \in {"ok", "error"} /\ submitReq'.phase = "idle"

\* the continuation of fetchEntries runs in this step
FetchCompletes == fetchReq.phase \in {"ok", "error"} /\ fetchReq'.phase = "done"

\* C30: when a submit completes isSubmitting is false, when a delete completes
\* deletingId is null, when the initial select completes isLoadingEntries is
\* false, whatever the outcome; a flag is set only while its request is
\* outstanding; and a settled submit or select does get its flag cleared.
C30_BusyFlagsCleared ==
    /\ [][SubmitCompletes => ~isSubmitting']_vars
    /\ [][DeleteCompletes => deletingId' = Null]_vars
    /\ [][FetchCompletes => ~isLoadingEntries']_vars
    /\ [](submitReq.phase = "idle" => ~isSubmitting)
    /\ [](deleteReqs = <<>> => deletingId = Null)
    /\ [](fetchReq.phase \in {"none", "done"} => ~isLoadingEntries)
    /\ (submitReq.phase \in {"ok", "error"}) ~> ~isSubmitting
    /\ (fetchReq.phase \in {"ok", "error"}) ~> ~isLoadingEntries

\* the select, a create and a delete have all failed, and no flag is left set
C30_Witness ==
    /\ supabase
    /\ syncError = SyncUnavailable
    /\ submitCount = 1 /\ deleteCount = 1
    /\ statusMessage = MsgDeleteFailed
    /\ submitReq.phase = "idle" /\ deleteReqs = <<>> /\ fetchReq.phase = "done"
    /\ ~isSubmitting /\ deletingId = Null /\ ~isLoadingEntries
    /\ Len(entries) = 5

====
